---- MODULE Spec2Model ----
(***************************************************************************)
(* The releases content plugin of the Vector website: loadContent with its *)
(* two scatter/gather passes (generateReleases, generateHighlights), the   *)
(* prev/next linking of each collection, contentLoaded with the routes it  *)
(* registers, configureWebpack, and the markdown link rewriter linkify.    *)
(*                                                                         *)
(* Strings are sequences of one-character strings, so that the regular     *)
(* expressions, String.replace, path resolution and URL normalisation of   *)
(* the source are computed character by character.                         *)
(***************************************************************************)
EXTENDS Integers, Sequences, FiniteSets, TLC

VARIABLES
    production,         \* process.env.NODE_ENV === 'production'
    dirExists,          \* fs.existsSync(contentPath)
    disk,               \* relativeSource -> the file's parsed text
    truncateMarker,     \* options.truncateMarker: [global, lastIndex] of the RegExp object
    pc,                 \* where loadContent stands
    pass,               \* number of loadContent calls so far
    watchEvent,         \* a watched path changed since the last loadContent call
    relTask,            \* relativeSource -> state of its read task (generateReleases)
    hlTask,             \* relativeSource -> state of its read task (generateHighlights)
    relArr,             \* the array releases local to generateReleases
    hlArr,              \* the array releaseHighlights local to generateHighlights
    releases,           \* the plugin's closure variable releases
    releaseHighlights,  \* the plugin's closure variable releaseHighlights
    error,              \* the rejection of loadContent: <<>> or <<[kind, path]>>
    routes,             \* the paths handed to addRoute by contentLoaded, in call order
    webpack,            \* <<>> or <<the releases handed to the markdown loader>>
    fileContent,        \* linkify: the text handed in
    linkReleases,       \* linkify: the collection handed in
    fencedBlock,        \* linkify: the flag fencedBlock
    lineNo,             \* linkify: number of lines the map callback has seen
    outLines,           \* linkify: the lines produced so far
    linkified,          \* linkify: the returned text
    linkPc              \* linkify: "off", "map" (inside the map over the lines), "returned"

loadVars == <<production, dirExists, disk, truncateMarker, pc, pass, watchEvent, relTask, hlTask,
              relArr, hlArr, releases, releaseHighlights, error, routes, webpack>>
linkVars == <<fileContent, linkReleases, fencedBlock, lineNo, outLines, linkified, linkPc>>
vars == <<loadVars, linkVars>>

-----------------------------------------------------------------------------
(* Bounds of the model *)

MaxFiles == 3
MaxPasses == 2
MaxLines == 3

-----------------------------------------------------------------------------
(* Strings *)

StartsWith(s, p) == Len(s) >= Len(p) /\ SubSeq(s, 1, Len(p)) = p

EndsWith(s, p) == Len(s) >= Len(p) /\ SubSeq(s, Len(s) - Len(p) + 1, Len(s)) = p

\* s with its first n characters dropped
Drop(s, n) == SubSeq(s, n + 1, Len(s))

\* the least 1-based position >= from where p occurs in s, 0 when there is none
IndexFrom(s, p, from) ==
    LET hits == {i \in from..(Len(s) - Len(p) + 1) : SubSeq(s, i, i + Len(p) - 1) = p}
    IN  IF hits = {} THEN 0 ELSE CHOOSE i \in hits : \A j \in hits : i <= j

RECURSIVE SplitBy(_, _)
SplitBy(s, sep) ==
    LET k == IndexFrom(s, <<sep>>, 1)
    IN  IF k = 0 THEN <<s>>
        ELSE <<SubSeq(s, 1, k - 1)>> \o SplitBy(Drop(s, k), sep)

RECURSIVE JoinBy(_, _)
JoinBy(parts, sep) ==
    IF Len(parts) = 0 THEN <<>>
    ELSE IF Len(parts) = 1 THEN parts[1]
    ELSE parts[1] \o <<sep>> \o JoinBy(Tail(parts), sep)

WhiteSpace == {" ", "\t"}

RECURSIVE TrimStart(_)
TrimStart(s) == IF Len(s) > 0 /\ s[1] \in WhiteSpace THEN TrimStart(Tail(s)) ELSE s

RECURSIVE TrimEnd(_)
TrimEnd(s) ==
    IF Len(s) > 0 /\ s[Len(s)] \in WhiteSpace THEN TrimEnd(SubSeq(s, 1, Len(s) - 1)) ELSE s

Trim(s) == TrimEnd(TrimStart(s))

\* String.prototype.replace(pattern: string, replacement): the first occurrence only
ReplaceFirst(s, pat, rep) ==
    LET k == IndexFrom(s, pat, 1)
    IN  IF k = 0 THEN s
        ELSE SubSeq(s, 1, k - 1) \o rep \o Drop(s, k + Len(pat) - 1)

-----------------------------------------------------------------------------
(* Paths (Node's path module, POSIX) *)

RECURSIVE NormalizeSegments(_, _)
NormalizeSegments(segs, acc) ==
    IF Len(segs) = 0 THEN acc
    ELSE LET h == Head(segs)
         IN  IF h = <<>> \/ h = <<".">> THEN NormalizeSegments(Tail(segs), acc)
             ELSE IF h = <<".", ".">>
                  THEN NormalizeSegments(Tail(segs),
                           IF Len(acc) = 0 THEN acc ELSE SubSeq(acc, 1, Len(acc) - 1))
                  ELSE NormalizeSegments(Tail(segs), Append(acc, h))

\* path.resolve(from, to) for an absolute from, as the segments below the root
PathResolve(from, to) ==
    IF StartsWith(to, <<"/">>)
    THEN NormalizeSegments(SplitBy(to, "/"), <<>>)
    ELSE NormalizeSegments(SplitBy(from, "/") \o SplitBy(to, "/"), <<>>)

\* path.join(a, b)
PathJoin(a, b) == <<"/">> \o JoinBy(NormalizeSegments(SplitBy(a \o <<"/">> \o b, "/"), <<>>), "/")

RECURSIVE CommonPrefix(_, _)
CommonPrefix(a, b) ==
    IF Len(a) > 0 /\ Len(b) > 0 /\ Head(a) = Head(b)
    THEN 1 + CommonPrefix(Tail(a), Tail(b))
    ELSE 0

\* path.relative(from, to) of two resolved paths given as segments
PathRelative(from, to) ==
    LET c == CommonPrefix(from, to)
    IN  JoinBy([i \in 1..(Len(from) - c) |-> <<".", ".">>] \o Drop(to, c), "/")

-----------------------------------------------------------------------------
(* The site and the options *)

siteDir == <<"/", "s">>
optionsPath == <<"c">>
routeBasePath == <<"r">>
baseUrl == <<"/">>
contentPath == <<"/">> \o JoinBy(PathResolve(siteDir, optionsPath), "/")

\* options.include and its highlights counterpart
include == {<<"*", ".", "m", "d">>, <<"*", ".", "m", "d", "x">>}
highlightsPrefix == <<"h", "i", "g", "h", "l", "i", "g", "h", "t", "s", "/">>
highlightInclude == {highlightsPrefix \o glob : glob \in include}

\* the character the configured truncateMarker pattern matches
markerChar == "#"

\* aliasedSitePath(filePath, siteDir) of @docusaurus/utils
aliasedSitePath(filePath, dir) ==
    <<"@", "s", "i", "t", "e", "/">> \o
        PathRelative(PathResolve(<<"/">>, dir), PathResolve(<<"/">>, filePath))

RECURSIVE DedupeSlashes(_)
DedupeSlashes(s) ==
    IF Len(s) < 2 THEN s
    ELSE IF s[1] = "/" /\ s[2] = "/" THEN DedupeSlashes(Tail(s))
    ELSE <<s[1]>> \o DedupeSlashes(Tail(s))

\* normalizeUrl(rawUrls) of @docusaurus/utils, for components without a protocol,
\* a query or a hash: empty components are skipped, the rest joined by "/" and
\* every run of slashes collapsed
normalizeUrl(rawUrls) ==
    DedupeSlashes(JoinBy(SelectSeq(rawUrls, LAMBDA u : u # <<>>), "/"))

\* relativeSource.replace(/\.mdx?$/, '')
StripMdExt(relativeSource) ==
    IF EndsWith(relativeSource, <<".", "m", "d", "x">>)
    THEN SubSeq(relativeSource, 1, Len(relativeSource) - 4)
    ELSE IF EndsWith(relativeSource, <<".", "m", "d">>)
    THEN SubSeq(relativeSource, 1, Len(relativeSource) - 3)
    ELSE relativeSource

\* a glob with one "*": the star matches any run of characters other than "/"
GlobMatch(glob, name) ==
    LET k == IndexFrom(glob, <<"*">>, 1)
        pre == SubSeq(glob, 1, k - 1)
        suf == Drop(glob, k)
    IN  /\ Len(name) >= Len(pre) + Len(suf)
        /\ StartsWith(name, pre)
        /\ EndsWith(name, suf)
        /\ \A i \in (Len(pre) + 1)..(Len(name) - Len(suf)) : name[i] # "/"

\* globby(patterns, {cwd: releaseDir})
Globby(patterns) == {f \in DOMAIN disk : \E g \in patterns : GlobMatch(g, f)}

-----------------------------------------------------------------------------
(* Front matter and Documents *)

\* utils.parse(fileString) fails on malformed front matter
ParseFails(file) == file.malformed

\* frontMatter.draft && process.env.NODE_ENV === 'production'
SkipDraftAlways(file, prod) == file.draft
SkipDraft(file, prod) == file.draft /\ prod

\* RegExp.prototype.test(content) on the marker object: [result, lastIndex];
\* a global pattern searches from lastIndex and moves it, any other searches
\* from the start and leaves it alone
RegExpTest(re, content) ==
    IF re.global
    THEN LET k == IF re.lastIndex > Len(content) THEN 0
                  ELSE IndexFrom(content, <<markerChar>>, re.lastIndex + 1)
         IN  [result |-> k # 0, lastIndex |-> k]
    ELSE [result |-> IndexFrom(content, <<markerChar>>, 1) # 0, lastIndex |-> re.lastIndex]

\* the object pushed by a read task of generateReleases / generateHighlights
\* (an absent front-matter field is the empty string: || treats both alike)
MakeDocumentSharedSource(relativeSource, file, truncated) ==
    LET linkName == StripMdExt(relativeSource)
        title == IF file.title # <<>> THEN file.title ELSE linkName
    IN  [id |-> IF file.id # <<>> THEN file.id ELSE file.title,
         metadata |->
            [permalink |-> normalizeUrl(<<baseUrl, routeBasePath,
                                          IF file.id # <<>> THEN file.id ELSE linkName>>),
             source |-> aliasedSitePath(contentPath, siteDir),
             title |-> title,
             truncated |-> truncated,
             prevItem |-> <<>>,
             nextItem |-> <<>>]]
MakeDocument(relativeSource, file, truncated) ==
    LET linkName == StripMdExt(relativeSource)
        title == IF file.title # <<>> THEN file.title ELSE linkName
    IN  [id |-> IF file.id # <<>> THEN file.id ELSE file.title,
         metadata |->
            [permalink |-> normalizeUrl(<<baseUrl, routeBasePath,
                                          IF file.id # <<>> THEN file.id ELSE linkName>>),
             source |-> aliasedSitePath(PathJoin(contentPath, relativeSource), siteDir),
             title |-> title,
             truncated |-> truncated,
             prevItem |-> <<>>,
             nextItem |-> <<>>]]

\* what the continuation of one read task does once fs.readFile has resolved:
\* the task's end state, what it pushes, and the marker object afterwards
ReadOutcomeSkipUnparsed(f) ==
    LET file == disk[f]
    IN  IF ParseFails(file) \/ SkipDraft(file, production)
        THEN [status |-> "done", push |-> <<>>, marker |-> truncateMarker]
        ELSE LET t == RegExpTest(truncateMarker, file.content)
             IN  [status |-> "done",
                  push |-> <<MakeDocument(f, file, t.result)>>,
                  marker |-> [truncateMarker EXCEPT !.lastIndex = t.lastIndex]]
ReadOutcome(f) ==
    LET file == disk[f]
    IN  IF ParseFails(file)
        THEN [status |-> "failed", push |-> <<>>, marker |-> truncateMarker]
        ELSE IF SkipDraft(file, production)
        THEN [status |-> "done", push |-> <<>>, marker |-> truncateMarker]
        ELSE LET t == RegExpTest(truncateMarker, file.content)
             IN  [status |-> "done",
                  push |-> <<MakeDocument(f, file, t.result)>>,
                  marker |-> [truncateMarker EXCEPT !.lastIndex = t.lastIndex]]

\* return [] of a missing directory and const releases = []: a new array
SharedArray(prev) == prev
FreshArray(prev) == <<>>

\* fs.existsSync(releaseDir)
ExistsSync == dirExists

\* the files whose read tasks a generate call starts
FilesToRead(patterns) == IF ~ExistsSync THEN {} ELSE Globby(patterns)

\* await Promise.all(tasks) resolves once every task has resolved
GatherAny(task) == \E f \in DOMAIN task : task[f] = "done"
GatherDone(task) == \A f \in DOMAIN task : task[f] = "done"

-----------------------------------------------------------------------------
(* The prev/next linking of loadContent *)

Paginator(item) == [title |-> item.metadata.title, permalink |-> item.metadata.permalink]

\* one call of the forEach callback, index counted from 1
LinkOneSkipSecond(coll, index) ==
    LET withPrev == IF index > 2
                    THEN [coll EXCEPT ![index].metadata.prevItem = <<Paginator(coll[index - 1])>>]
                    ELSE coll
    IN  IF index < Len(coll)
        THEN [withPrev EXCEPT ![index].metadata.nextItem = <<Paginator(coll[index + 1])>>]
        ELSE withPrev
LinkOneWholeNeighbour(coll, index) ==
    LET withPrev == IF index > 1
                    THEN [coll EXCEPT ![index].metadata.prevItem = <<Paginator(coll[index - 1])>>]
                    ELSE coll
    IN  IF index < Len(coll)
        THEN [withPrev EXCEPT ![index].metadata.nextItem = <<coll[index + 1].metadata>>]
        ELSE withPrev
LinkOne(coll, index) ==
    LET withPrev == IF index > 1
                    THEN [coll EXCEPT ![index].metadata.prevItem = <<Paginator(coll[index - 1])>>]
                    ELSE coll
    IN  IF index < Len(coll)
        THEN [withPrev EXCEPT ![index].metadata.nextItem = <<Paginator(coll[index + 1])>>]
        ELSE withPrev

RECURSIVE LinkFrom(_, _)
LinkFrom(coll, index) ==
    IF index > Len(coll) THEN coll ELSE LinkFrom(LinkOne(coll, index), index + 1)

\* releases.forEach((release, index) => ...)
LinkCollection(coll) == LinkFrom(coll, 1)

-----------------------------------------------------------------------------
(* loadContent *)

\* what the rejection of a read task can say: fs.readFile is handed the path of
\* the file, utils.parse only its text
ReadError(source) == [kind |-> "read", path |-> source]
ParseError == [kind |-> "parse", path |-> <<>>]

\* no addRoute call yet: path -> number of addRoute calls with it
NoRoutes == [p \in {} |-> 0]

Quiescent ==
    /\ \A f \in DOMAIN relTask : relTask[f] # "reading"
    /\ \A f \in DOMAIN hlTask : hlTask[f] # "reading"

\* the call, at start-up and again after a change under the watched paths:
\* generateReleases up to its await of the gather
LoadContent ==
    /\ pc = "idle" \/ (pc \in {"done", "failed"} /\ watchEvent)
    /\ Quiescent
    /\ pass < MaxPasses
    /\ pass' = pass + 1
    /\ watchEvent' = FALSE
    /\ relArr' = FreshArray(relArr)
    /\ relTask' = [f \in FilesToRead(include) |-> "reading"]
    /\ hlTask' = [f \in {} |-> "reading"]
    /\ pc' = "releases"
    /\ error' = <<>>
    /\ routes' = NoRoutes
    /\ UNCHANGED <<production, dirExists, disk, truncateMarker, hlArr, releases,
                   releaseHighlights, webpack, linkVars>>

\* fs.readFile of a release resolved: the rest of its task
ReleaseRead(f) ==
    /\ f \in DOMAIN relTask
    /\ relTask[f] = "reading"
    /\ LET o == ReadOutcome(f)
       IN  /\ relTask' = [relTask EXCEPT ![f] = o.status]
           /\ relArr' = relArr \o o.push
           /\ truncateMarker' = o.marker
           /\ pc' = IF o.status = "failed" /\ pc = "releases" THEN "failed" ELSE pc
           /\ error' = IF o.status = "failed" /\ pc = "releases" THEN <<ParseError>> ELSE error
    /\ UNCHANGED <<watchEvent, production, dirExists, disk, pass, hlTask, hlArr, releases,
                   releaseHighlights, routes, webpack, linkVars>>

\* fs.readFile of a release rejected
ReleaseReadError(f) ==
    /\ f \in DOMAIN relTask
    /\ relTask[f] = "reading"
    /\ relTask' = [relTask EXCEPT ![f] = "failed"]
    /\ pc' = IF pc = "releases" THEN "failed" ELSE pc
    /\ error' = IF pc = "releases" THEN <<ReadError(PathJoin(contentPath, f))>> ELSE error
    /\ UNCHANGED <<watchEvent, production, dirExists, disk, truncateMarker, pass, hlTask, relArr, hlArr,
                   releases, releaseHighlights, routes, webpack, linkVars>>

\* generateReleases resolved: assign, link, and generateHighlights up to its gather
GatherReleases ==
    /\ pc = "releases"
    /\ GatherDone(relTask)
    /\ releases' = LinkCollection(relArr)
    /\ relArr' = releases'
    /\ hlArr' = FreshArray(hlArr)
    /\ hlTask' = [f \in FilesToRead(highlightInclude) |-> "reading"]
    /\ pc' = "highlights"
    /\ UNCHANGED <<watchEvent, production, dirExists, disk, truncateMarker, pass, relTask,
                   releaseHighlights, error, routes, webpack, linkVars>>

HighlightRead(f) ==
    /\ f \in DOMAIN hlTask
    /\ hlTask[f] = "reading"
    /\ LET o == ReadOutcome(f)
       IN  /\ hlTask' = [hlTask EXCEPT ![f] = o.status]
           /\ hlArr' = hlArr \o o.push
           /\ truncateMarker' = o.marker
           /\ pc' = IF o.status = "failed" /\ pc = "highlights" THEN "failed" ELSE pc
           /\ error' = IF o.status = "failed" /\ pc = "highlights" THEN <<ParseError>> ELSE error
    /\ UNCHANGED <<watchEvent, production, dirExists, disk, pass, relTask, relArr, releases,
                   releaseHighlights, routes, webpack, linkVars>>

HighlightReadError(f) ==
    /\ f \in DOMAIN hlTask
    /\ hlTask[f] = "reading"
    /\ hlTask' = [hlTask EXCEPT ![f] = "failed"]
    /\ pc' = IF pc = "highlights" THEN "failed" ELSE pc
    /\ error' = IF pc = "highlights" THEN <<ReadError(PathJoin(contentPath, f))>> ELSE error
    /\ UNCHANGED <<watchEvent, production, dirExists, disk, truncateMarker, pass, relTask, relArr, hlArr,
                   releases, releaseHighlights, routes, webpack, linkVars>>

\* generateHighlights resolved: assign, link, return
GatherHighlights ==
    /\ pc = "highlights"
    /\ GatherDone(hlTask)
    /\ releaseHighlights' = LinkCollection(hlArr)
    /\ hlArr' = releaseHighlights'
    /\ pc' = "done"
    /\ UNCHANGED <<watchEvent, production, dirExists, disk, truncateMarker, pass, relTask, hlTask, relArr,
                   releases, error, routes, webpack, linkVars>>

\* between two passes the content directory is removed
RemoveDir ==
    /\ pc \in {"done", "failed"}
    /\ Quiescent
    /\ dirExists
    /\ dirExists' = FALSE
    /\ disk' = [f \in {} |-> f]
    /\ watchEvent' = TRUE
    /\ UNCHANGED <<production, truncateMarker, pc, pass, relTask, hlTask, relArr, hlArr,
                   releases, releaseHighlights, error, routes, webpack, linkVars>>

-----------------------------------------------------------------------------
(* contentLoaded and configureWebpack *)

download == <<"d", "o", "w", "n", "l", "o", "a", "d">>
highlights == <<"h", "i", "g", "h", "l", "i", "g", "h", "t", "s">>

\* normalizeUrl([baseUrl, routeBasePath])
basePageUrl == normalizeUrl(<<baseUrl, routeBasePath>>)

\* the paths of the addRoute calls for the release pages
RECURSIVE ReleaseRoutes(_)
ReleaseRoutes(rels) ==
    IF Len(rels) = 0 THEN <<>>
    ELSE <<Head(rels).metadata.permalink,
           normalizeUrl(<<Head(rels).metadata.permalink, download>>)>>
         \o ReleaseRoutes(Tail(rels))

\* the paths of the addRoute calls for the highlight pages
HighlightRoutes(hls) == [i \in 1..Len(hls) |-> hls[i].metadata.permalink]

\* every path one contentLoaded call hands to addRoute; withList: the variant
\* that also registers the list of highlights
RoutePaths(rels, hls, withList) ==
    <<basePageUrl>> \o ReleaseRoutes(rels) \o HighlightRoutes(hls)
        \o (IF withList THEN <<normalizeUrl(<<basePageUrl, highlights>>)>> ELSE <<>>)

\* the addRoute calls counted per path (their order depends on createData)
AddRoutes(paths) ==
    [p \in {paths[i] : i \in 1..Len(paths)} |->
        Cardinality({i \in 1..Len(paths) : paths[i] = p})]

\* contentLoaded({content: {releases, releaseHighlights}, actions})
ContentLoaded ==
    /\ pc = "done"
    /\ routes = NoRoutes
    /\ routes' = AddRoutes(RoutePaths(releases, releaseHighlights, FALSE))
    /\ UNCHANGED <<production, dirExists, disk, truncateMarker, pc, pass, watchEvent, relTask,
                   hlTask, relArr, hlArr, releases, releaseHighlights, error, webpack, linkVars>>

\* contentLoaded of the variant with the highlights list page
ContentLoadedWithList ==
    /\ pc = "done"
    /\ routes = NoRoutes
    /\ routes' = AddRoutes(RoutePaths(releases, releaseHighlights, TRUE))
    /\ UNCHANGED <<production, dirExists, disk, truncateMarker, pc, pass, watchEvent, relTask,
                   hlTask, relArr, hlArr, releases, releaseHighlights, error, webpack, linkVars>>

\* configureWebpack: the closure variable releases goes to the markdown loader
ConfigureWebpack ==
    /\ pc = "done"
    /\ routes # NoRoutes
    /\ webpack = <<>>
    /\ webpack' = <<releases>>
    /\ UNCHANGED <<production, dirExists, disk, truncateMarker, pc, pass, watchEvent, relTask,
                   hlTask, relArr, hlArr, releases, releaseHighlights, error, routes, linkVars>>

-----------------------------------------------------------------------------
(* linkify *)

\* the backquote character, which a TLA+ string cannot hold
Backquote == "bq"

fence == <<Backquote, Backquote, Backquote>>

\* line.trim().startsWith(fence)
IsFenceLineNoTrim(line) == StartsWith(line, fence)
IsFenceLine(line) == StartsWith(Trim(line), fence)

\* [^'")\]\s>]
LinkChar(c) == c \notin ({"'", "\"", ")", "]", ">"} \cup WhiteSpace)

\* the last position e >= g - 1 such that line[g..e] are all LinkChars
RECURSIVE RunEnd(_, _)
RunEnd(line, g) ==
    IF g <= Len(line) /\ LinkChar(line[g]) THEN RunEnd(line, g + 1) ELSE g - 1

\* mdRegex tried at position p (counted from 1): the positions of group 1, or <<>>.
\*   (?:\]\(|\]:\s?)  (?!https)  ([^'")\]\s>]+\.mdx?)
\* The greedy group takes the whole run of LinkChars and gives characters back
\* until ".md" follows; "x?" then takes an "x" when there is one.
MatchAt(line, p) ==
    IF ~(p + 1 <= Len(line) /\ line[p] = "]" /\ line[p + 1] \in {"(", ":"}) THEN <<>>
    ELSE LET g == IF line[p + 1] = ":" /\ p + 2 <= Len(line) /\ line[p + 2] \in WhiteSpace
                  THEN p + 3 ELSE p + 2
             e == RunEnd(line, g)
             dots == {k \in (g + 1)..(e - 2) : SubSeq(line, k, k + 2) = <<".", "m", "d">>}
         IN  IF StartsWith(Drop(line, g - 1), <<"h", "t", "t", "p", "s">>) \/ dots = {}
             THEN <<>>
             ELSE LET k == CHOOSE d \in dots : \A o \in dots : o <= d
                  IN  <<g, IF k + 3 <= e /\ line[k + 3] = "x" THEN k + 3 ELSE k + 2>>

\* mdRegex.exec(line) with the global flag: the leftmost match at or after
\* lastIndex, which moves to the end of the match; null resets it to 0
Exec(line, lastIndex) ==
    LET starts == {p \in (lastIndex + 1)..Len(line) : MatchAt(line, p) # <<>>}
    IN  IF starts = {}
        THEN [found |-> FALSE, mdLink |-> <<>>, at |-> 0, lastIndex |-> 0]
        ELSE LET p == CHOOSE q \in starts : \A o \in starts : q <= o
                 m == MatchAt(line, p)
             IN  [found |-> TRUE, mdLink |-> SubSeq(line, m[1], m[2]), at |-> m[1],
                  lastIndex |-> m[2]]

\* '@site/' + path.relative(siteDir, path.resolve(releasePath, mdLink))
AliasedPostSource(releasePath, mdLink) ==
    <<"@", "s", "i", "t", "e", "/">> \o
        PathRelative(PathResolve(<<"/">>, siteDir), PathResolve(releasePath, mdLink))

\* releases.forEach(...): the permalink of the last release with that source, <<>> for null
RECURSIVE ReleasePermalink(_, _, _)
ReleasePermalink(rels, source, found) ==
    IF Len(rels) = 0 THEN found
    ELSE ReleasePermalink(Tail(rels), source,
             IF Head(rels).metadata.source = source
             THEN Head(rels).metadata.permalink ELSE found)

\* the while loop over the matches of one line
RECURSIVE RewriteFrom(_, _, _, _)
RewriteFrom(modifiedLine, lastIndex, releasePath, rels) ==
    LET mdMatch == Exec(modifiedLine, lastIndex)
    IN  IF ~mdMatch.found THEN modifiedLine
        ELSE LET releasePermalink ==
                     ReleasePermalink(rels, AliasedPostSource(releasePath, mdMatch.mdLink), <<>>)
             IN  RewriteFrom(IF releasePermalink # <<>>
                             THEN ReplaceFirst(modifiedLine, mdMatch.mdLink, releasePermalink)
                             ELSE modifiedLine,
                             mdMatch.lastIndex, releasePath, rels)

\* fileContent.split('\n')
Lines(text) == SplitBy(text, "\n")

\* one call of the map callback
LinkifyLine ==
    /\ linkPc = "map"
    /\ lineNo < Len(Lines(fileContent))
    /\ LET line == Lines(fileContent)[lineNo + 1]
           fenced == IF IsFenceLine(line) THEN ~fencedBlock ELSE fencedBlock
       IN  /\ fencedBlock' = fenced
           /\ outLines' = Append(outLines,
                              IF fenced THEN line
                              ELSE RewriteFrom(line, 0, contentPath, linkReleases))
    /\ lineNo' = lineNo + 1
    /\ UNCHANGED <<fileContent, linkReleases, linkified, linkPc, loadVars>>

\* return lines.join('\n')
LinkifyReturn ==
    /\ linkPc = "map"
    /\ lineNo = Len(Lines(fileContent))
    /\ linkified' = JoinBy(outLines, "\n")
    /\ linkPc' = "returned"
    /\ UNCHANGED <<fileContent, linkReleases, fencedBlock, lineNo, outLines, loadVars>>

-----------------------------------------------------------------------------
(* Inputs *)

NameA == <<"a", ".", "m", "d">>
NameAx == <<"a", ".", "m", "d", "x">>
NameB == <<"b", "b", ".", "m", "d">>
NameH == <<"h", "i", "g", "h", "l", "i", "g", "h", "t", "s", "/", "h", ".", "m", "d">>
NameK == <<"h", "i", "g", "h", "l", "i", "g", "h", "t", "s", "/", "k", ".", "m", "d", "x">>
FileNames == {NameA, NameAx, NameB, NameH, NameK}

\* the names of the runs that vary the file bodies
BodyNames == {NameA, NameAx, NameH}

NoText == <<>>

\* front matter: nothing set, id and title set, draft set, not parseable
Plain == [id |-> NoText, title |-> NoText, draft |-> FALSE, malformed |-> FALSE,
          content |-> <<"t">>]
FrontMatters ==
    {Plain,
     [Plain EXCEPT !.id = <<"x">>, !.title = <<"T">>],
     [Plain EXCEPT !.draft = TRUE],
     [Plain EXCEPT !.malformed = TRUE]}

\* bodies: with the truncation marker at the start, later or nowhere, a draft,
\* and a file whose front matter does not parse
Bodies ==
    {Plain,
     [Plain EXCEPT !.content = <<"#">>],
     [Plain EXCEPT !.content = <<"t", "#">>],
     [Plain EXCEPT !.content = <<"#">>, !.draft = TRUE],
     [Plain EXCEPT !.malformed = TRUE]}

Disks(names, variants) ==
    UNION {[S -> variants] : S \in {T \in SUBSET names : Cardinality(T) <= MaxFiles}}

NoTasks == [f \in {} |-> "reading"]

LinkOff ==
    /\ fileContent = <<>>
    /\ linkReleases = <<>>
    /\ fencedBlock = FALSE
    /\ lineNo = 0
    /\ outLines = <<>>
    /\ linkified = <<>>
    /\ linkPc = "off"

LoadIdle ==
    /\ pc = "idle"
    /\ pass = 0
    /\ watchEvent = FALSE
    /\ relTask = NoTasks
    /\ hlTask = NoTasks
    /\ relArr = <<>>
    /\ hlArr = <<>>
    /\ releases = <<>>
    /\ releaseHighlights = <<>>
    /\ error = <<>>
    /\ routes = NoRoutes
    /\ webpack = <<>>

\* the plugin after construction, over every small content directory
Init ==
    /\ production \in BOOLEAN
    /\ dirExists \in BOOLEAN
    /\ disk \in (IF dirExists THEN Disks(FileNames, FrontMatters) ELSE {[f \in {} |-> f]})
    /\ truncateMarker = [global |-> FALSE, lastIndex |-> 0]
    /\ LoadIdle
    /\ LinkOff

\* the same with a configured marker pattern that is global or not
TruncInit ==
    /\ production \in BOOLEAN
    /\ dirExists = TRUE
    /\ disk \in Disks(BodyNames, Bodies)
    /\ truncateMarker \in [global : BOOLEAN, lastIndex : {0}]
    /\ LoadIdle
    /\ LinkOff

Next ==
    \/ LoadContent
    \/ \E f \in FileNames : ReleaseRead(f)
    \/ \E f \in FileNames : ReleaseReadError(f)
    \/ GatherReleases
    \/ \E f \in FileNames : HighlightRead(f)
    \/ \E f \in FileNames : HighlightReadError(f)
    \/ GatherHighlights
    \/ ContentLoaded
    \/ ContentLoadedWithList
    \/ ConfigureWebpack
    \/ RemoveDir

Spec == Init /\ [][Next]_vars

TruncSpec == TruncInit /\ [][Next]_vars

\* the lines linkify is tried on
SampleLines == {
    <<"[", "t", "]", "(", ".", "/", "a", ".", "m", "d", ")">>,
    <<"[", "t", "]", ":", " ", "a", ".", "m", "d">>,
    <<Backquote, Backquote, Backquote>>,
    <<" ", Backquote, Backquote, Backquote, "j", "s">>,
    <<Backquote, Backquote, Backquote, "]", "(", "a", ".", "m", "d", ")">>,
    <<"[", ".", "/", "a", ".", "m", "d", "]", "(", ".", "/", "a", ".", "m", "d", ")">>,
    <<"[", "t", "]", "(", ".", ".", "/", "c", "/", "b", "b", ".", "m", "d", ")", "[", "u", "]", "(", "a", ".", "m", "d", ")">>,
    <<"[", "t", "]", "(", "h", "t", "t", "p", ":", "/", "/", "h", "/", ".", ".", "/", ".", ".", "/", "a", ".", "m", "d", ")">>,
    <<"[", "t", "]", "(", "h", "t", "t", "p", "s", ":", "/", "/", "h", "/", "a", ".", "m", "d", ")">>,
    <<"[", "t", "]", "(", ".", "/", "z", ".", "m", "d", ")">>}

RECURSIVE SeqsUpTo(_, _)
SeqsUpTo(S, n) ==
    IF n = 0 THEN {<<>>}
    ELSE LET shorter == SeqsUpTo(S, n - 1)
         IN  shorter \cup {Append(q, x) : q \in {r \in shorter : Len(r) = n - 1}, x \in S}

\* the collections linkify is tried with: what loadContent makes of these files
LinkFileA == Plain
LinkFileB == [Plain EXCEPT !.id = <<"x">>]
SampleCollections ==
    {LinkCollection(<<MakeDocument(NameA, LinkFileA, FALSE)>>),
     LinkCollection(<<MakeDocument(NameB, LinkFileB, FALSE),
                      MakeDocument(NameA, LinkFileA, FALSE)>>)}

LinkifyInit ==
    /\ fileContent \in {JoinBy(ls, "\n") : ls \in SeqsUpTo(SampleLines, MaxLines) \ {<<>>}}
    /\ linkReleases \in SampleCollections
    /\ fencedBlock = FALSE
    /\ lineNo = 0
    /\ outLines = <<>>
    /\ linkified = <<>>
    /\ linkPc = "map"
    /\ production = FALSE
    /\ dirExists = TRUE
    /\ disk = [f \in {} |-> f]
    /\ truncateMarker = [global |-> FALSE, lastIndex |-> 0]
    /\ LoadIdle

LinkifyNext == LinkifyLine \/ LinkifyReturn

LinkifySpec == LinkifyInit /\ [][LinkifyNext]_vars

-----------------------------------------------------------------------------
(* Properties *)

SourceOf(f) == aliasedSitePath(PathJoin(contentPath, f), siteDir)

Matches(patterns, f) == \E g \in patterns : GlobMatch(g, f)

HasSource(coll, src) == \E i \in 1..Len(coll) : coll[i].metadata.source = src

NeighbourLinked(coll) ==
    \A i \in 1..Len(coll) :
        /\ coll[i].metadata.prevItem =
               IF i = 1 THEN <<>>
               ELSE <<[title |-> coll[i - 1].metadata.title,
                       permalink |-> coll[i - 1].metadata.permalink]>>
        /\ coll[i].metadata.nextItem =
               IF i = Len(coll) THEN <<>>
               ELSE <<[title |-> coll[i + 1].metadata.title,
                       permalink |-> coll[i + 1].metadata.permalink]>>

\* C1: once loadContent has returned, in both collections every element but the
\* first carries as prevItem the {title, permalink} of the element before it,
\* every element but the last carries as nextItem those of the element after it,
\* and the first has no prevItem and the last no nextItem.
C1_NeighbourLinks ==
    pc = "done" => NeighbourLinked(releases) /\ NeighbourLinked(releaseHighlights)

\* a returned collection of three releases: the middle one has both neighbours
C1_Witness == pc = "done" /\ Len(releases) = 3

DistinctPermalinks(coll) ==
    \A i, j \in 1..Len(coll) :
        i # j => coll[i].metadata.permalink # coll[j].metadata.permalink

\* C2: the permalinks of the Documents of one returned collection are pairwise
\* distinct, whatever the files and their front matter.
C2_DistinctPermalinks ==
    pc = "done" => DistinctPermalinks(releases) /\ DistinctPermalinks(releaseHighlights)

\* C6: of the files the globs match, exactly those not both marked draft and
\* read in production mode have a Document in the returned collection.
C6_DraftExclusion ==
    pc = "done" =>
        \A f \in DOMAIN disk :
            /\ Matches(include, f) =>
                   (HasSource(releases, SourceOf(f)) <=> ~(disk[f].draft /\ production))
            /\ Matches(highlightInclude, f) =>
                   (HasSource(releaseHighlights, SourceOf(f)) <=> ~(disk[f].draft /\ production))

\* production mode, a draft that was left out and another file that was kept
C6_Witness ==
    /\ pc = "done"
    /\ production
    /\ \E f \in DOMAIN disk : disk[f].draft /\ ~HasSource(releases, SourceOf(f))
                              /\ Matches(include, f)
    /\ Len(releases) > 0

HasMarker(content) == \E k \in 1..Len(content) : content[k] = markerChar

TruncatedRight(coll) ==
    \A i \in 1..Len(coll) : \A f \in DOMAIN disk :
        coll[i].metadata.source = SourceOf(f) =>
            (coll[i].metadata.truncated <=> HasMarker(disk[f].content))

\* C7: every Document of a returned collection has truncated true exactly when
\* the marker pattern matches somewhere in the body of its file.
C7_TruncatedIffMarker ==
    pc = "done" => TruncatedRight(releases) /\ TruncatedRight(releaseHighlights)

NoneReading(task) == \A f \in DOMAIN task : task[f] # "reading"

\* C8: in every step taken while the content directory does not exist, no read
\* task is started, no error is raised, and a loadContent that returns returns
\* two empty collections.
C8_MissingDir ==
    [][~dirExists =>
          /\ NoneReading(relTask') /\ NoneReading(hlTask')
          /\ (pc' = "failed" => pc = "failed")
          /\ (pc # "done" /\ pc' = "done" =>
                  releases' = <<>> /\ releaseHighlights' = <<>>)]_vars

\* a loadContent that ran to its end after the directory had been removed
C8_Witness == ~dirExists /\ pc = "done" /\ pass = 2 /\ relTask = NoTasks

\* C9: linking a collection that loadContent has linked once more changes no
\* prevItem and no nextItem.
C9_LinkIdempotent ==
    /\ LinkCollection(releases) = releases
    /\ LinkCollection(releaseHighlights) = releaseHighlights

\* two linked highlights
C9_Witness == pc = "done" /\ Len(releaseHighlights) = 2

HasLinks(coll) ==
    \E i \in 1..Len(coll) :
        coll[i].metadata.prevItem # <<>> \/ coll[i].metadata.nextItem # <<>>

\* C10: the array a generate call is filling carries a prevItem or nextItem only
\* when every read task of that call has completed.
C10_LinkAfterGather ==
    /\ HasLinks(relArr) => \A f \in DOMAIN relTask : relTask[f] = "done"
    /\ HasLinks(hlArr) => \A f \in DOMAIN hlTask : hlTask[f] = "done"

\* releases linked after a gather of three reads, highlights not yet returned
C10_Witness ==
    pc = "highlights" /\ HasLinks(relArr) /\ Cardinality(DOMAIN relTask) = 3

\* the order in which globby lists the files, which is the order the read
\* tasks are started in
ScanOrder == <<NameA, NameAx, NameB, NameH, NameK>>

Scanned(patterns) == SelectSeq(ScanOrder, LAMBDA f : f \in Globby(patterns))

\* the Documents of the files in that order, drafts left out as the mode says
RECURSIVE DocsOf(_)
DocsOf(files) ==
    IF Len(files) = 0 THEN <<>>
    ELSE LET f == Head(files)
         IN  (IF SkipDraft(disk[f], production) THEN <<>>
              ELSE <<MakeDocument(f, disk[f], HasMarker(disk[f].content))>>)
             \o DocsOf(Tail(files))

\* C11: whatever order the read tasks complete in, loadContent returns for the
\* files on disk one and the same pair of linked collections: the Documents in
\* the order the files were scanned in.
C11_OrderIndependent ==
    pc = "done" /\ ~watchEvent =>
        /\ releases = LinkCollection(DocsOf(Scanned(include)))
        /\ releaseHighlights = LinkCollection(DocsOf(Scanned(highlightInclude)))

\* a pass over several releases whose reads completed in the order of the scan
C11_ScanOrderReached ==
    /\ pc = "done" /\ ~watchEvent /\ Len(releases) >= 2
    /\ releases = LinkCollection(DocsOf(Scanned(include)))

AnyFailed(task) == \E f \in DOMAIN task : task[f] = "failed"

NoneUnparsed(patterns) == \A f \in Globby(patterns) : ~ParseFails(disk[f])

\* C12: as soon as the read or the parse of one matched file has failed,
\* loadContent has ended in an error; and a pass gets past a collection, or
\* returns, only when every matched file of it was read and parsed.
C12_FailureAbortsBatch ==
    /\ AnyFailed(relTask) \/ AnyFailed(hlTask) => pc = "failed" /\ error # <<>>
    /\ pc \in {"highlights", "done"} /\ ~watchEvent => NoneUnparsed(include)
    /\ pc = "done" /\ ~watchEvent => NoneUnparsed(highlightInclude)

\* a failed pass in which another file had been read and pushed
C12_Witness ==
    /\ pc = "failed" /\ AnyFailed(relTask)
    /\ Len(relArr) > 0 /\ releases = <<>>

\* C13: the linking step leaves the array it is given, and the Documents in
\* it, as they were: the array generateReleases (generateHighlights) built is
\* the same after the step as before it.
C13_LinkerPure ==
    [][/\ (pc = "releases" /\ pc' = "highlights" => relArr' = relArr)
       /\ (pc = "highlights" /\ pc' = "done" => hlArr' = hlArr)]_vars

\* every Document of the collection comes from a file now on disk, and its
\* prevItem and nextItem are those of its present neighbours
FromDisk(coll, files, patterns) ==
    /\ \A i \in 1..Len(coll) :
           \E f \in files : Matches(patterns, f) /\ coll[i].metadata.source = SourceOf(f)
    /\ NeighbourLinked(coll)

\* C14: every pass of loadContent returns only Documents and links built from
\* the files then on disk, and no step taken after loadContent has returned
\* (contentLoaded, configureWebpack) changes a Document of either collection.
C14_Lifecycle ==
    [][/\ (pc' = "done" /\ ~watchEvent' =>
               /\ FromDisk(releases', DOMAIN disk', include)
               /\ FromDisk(releaseHighlights', DOMAIN disk', highlightInclude))
       /\ (pc = "done" /\ pc' = "done" =>
               releases' = releases /\ releaseHighlights' = releaseHighlights)]_vars

\* the second pass has returned and contentLoaded has run on its result, while
\* the loader configured in the first pass was handed that pass's Documents
C14_Witness ==
    /\ pc = "done" /\ pass = 2 /\ routes # NoRoutes
    /\ webpack # <<>> /\ webpack[1] # <<>>

FailedPaths ==
    {PathJoin(contentPath, f) :
        f \in {g \in DOMAIN relTask : relTask[g] = "failed"}
               \cup {g \in DOMAIN hlTask : hlTask[g] = "failed"}}

\* C15: the error loadContent ends in carries the path of a file whose read or
\* parse failed.
C15_ErrorNamesFile ==
    pc = "failed" => error # <<>> /\ error[1].path \in FailedPaths

\* a pass that failed on a read: its error carries the path handed to readFile
C15_ReadErrorReached ==
    pc = "failed" /\ error # <<>> /\ error[1].kind = "read" /\ error[1].path \in FailedPaths

\* the Document at position i was built from file f
BuiltFrom(coll, i, f) ==
    LET own == MakeDocument(f, disk[f], FALSE)
    IN  /\ coll[i].metadata.source = SourceOf(f)
        /\ coll[i].id = own.id
        /\ coll[i].metadata.title = own.metadata.title
        /\ coll[i].metadata.permalink = own.metadata.permalink

OnePerFile(coll, patterns) ==
    /\ \A f \in Globby(patterns) :
           Cardinality({i \in 1..Len(coll) : coll[i].metadata.source = SourceOf(f)})
               = IF SkipDraft(disk[f], production) THEN 0 ELSE 1
    /\ \A i \in 1..Len(coll) : \E f \in Globby(patterns) : BuiltFrom(coll, i, f)

\* C18: a gathered collection holds, for each matched file that is not skipped
\* as a draft, exactly one Document, built from that file and carrying its
\* aliased path as source, and holds nothing else.
C18_OneDocumentPerFile ==
    /\ pc \in {"highlights", "done"} /\ ~watchEvent => OnePerFile(releases, include)
    /\ pc = "done" /\ ~watchEvent => OnePerFile(releaseHighlights, highlightInclude)

\* two matched releases of which one is a skipped draft, and a highlight
C18_Witness ==
    /\ pc = "done" /\ ~watchEvent
    /\ Cardinality(Globby(include)) = 2 /\ Len(releases) = 1
    /\ Len(releaseHighlights) = 1

\* C19: no path is handed to addRoute more than once by one contentLoaded call.
C19_DistinctRoutes == \A p \in DOMAIN routes : routes[p] = 1

\* one release and one highlight, no two permalinks alike within a collection,
\* and a path registered twice
C19_SharedIdReached ==
    /\ Len(releases) = 1 /\ Len(releaseHighlights) = 1
    /\ \E p \in DOMAIN routes : routes[p] = 2

-----------------------------------------------------------------------------
(* Properties of linkify *)

FenceLine(ls, i) == StartsWith(Trim(ls[i]), fence)

FencesUpTo(ls, k) == Cardinality({j \in 1..k : FenceLine(ls, j)})

\* the link targets mdRegex finds in a line, left to right
RECURSIVE TargetsFrom(_, _)
TargetsFrom(line, from) ==
    LET m == Exec(line, from)
    IN  IF ~m.found THEN {} ELSE {m.mdLink} \cup TargetsFrom(line, m.lastIndex)

PermalinkOf(target) ==
    ReleasePermalink(linkReleases, AliasedPostSource(contentPath, target), <<>>)

\* a line with each target that names a Document replaced, where it stands, by
\* that Document's permalink
RECURSIVE EachTargetReplaced(_, _)
EachTargetReplaced(line, from) ==
    LET m == Exec(line, from)
    IN  IF ~m.found THEN Drop(line, from)
        ELSE SubSeq(line, from + 1, m.at - 1)
             \o (IF PermalinkOf(m.mdLink) # <<>> THEN PermalinkOf(m.mdLink) ELSE m.mdLink)
             \o EachTargetReplaced(line, m.lastIndex)

\* C3: in the returned text every line outside the fenced blocks has each link
\* target that names a Document of the collection replaced by its permalink.
C3_EveryTargetRewritten ==
    linkPc = "returned" =>
        LET ls == Lines(fileContent)
        IN  \A i \in 1..Len(ls) :
                ~FenceLine(ls, i) /\ FencesUpTo(ls, i) % 2 = 0 =>
                    outLines[i] = EachTargetReplaced(ls[i], 0)

\* C4: the flag starts false, is true exactly after an odd number of fence
\* lines, and every line that is no fence line and follows an odd number of
\* fence lines is emitted as it came.
C4_FencedVerbatim ==
    LET ls == Lines(fileContent)
    IN  /\ lineNo = 0 => ~fencedBlock
        /\ fencedBlock <=> FencesUpTo(ls, lineNo) % 2 = 1
        /\ \A i \in 1..Len(outLines) :
               ~FenceLine(ls, i) /\ FencesUpTo(ls, i) % 2 = 1 => outLines[i] = ls[i]

\* a rewritable link between an opening and a closing fence line, returned
C4_Witness ==
    /\ linkPc = "returned"
    /\ LET ls == Lines(fileContent)
       IN  \E i \in 1..Len(ls) : \E j \in (i + 1)..Len(ls) :
               /\ ~FenceLine(ls, i) /\ FencesUpTo(ls, i) % 2 = 1 /\ FenceLine(ls, j)
               /\ RewriteFrom(ls[i], 0, contentPath, linkReleases) # ls[i]

AbsoluteUrl(target) ==
    \/ StartsWith(target, <<"h", "t", "t", "p", ":", "/", "/">>)
    \/ StartsWith(target, <<"h", "t", "t", "p", "s", ":", "/", "/">>)

\* C5: a line each of whose link targets names no Document of the collection
\* or is an absolute http or https URL is returned unchanged.
C5_OthersUntouched ==
    linkPc = "returned" =>
        LET ls == Lines(fileContent)
        IN  \A i \in 1..Len(ls) :
                (\A t \in TargetsFrom(ls[i], 0) : PermalinkOf(t) = <<>> \/ AbsoluteUrl(t))
                    => outLines[i] = ls[i]

\* C16: every fence line, opening or closing, is emitted as it came.
C16_FenceLineUnchanged ==
    LET ls == Lines(fileContent)
    IN  \A i \in 1..Len(outLines) : FenceLine(ls, i) => outLines[i] = ls[i]

\* an opening fence line that holds a link, emitted as it came
C16_OpeningFenceKept ==
    LET ls == Lines(fileContent)
    IN  \E i \in 1..Len(outLines) :
            /\ FenceLine(ls, i) /\ FencesUpTo(ls, i) % 2 = 1
            /\ RewriteFrom(ls[i], 0, contentPath, linkReleases) # ls[i]
            /\ outLines[i] = ls[i]

\* out is the rest of line after position from with some of the link targets
\* replaced, where they stand, by their permalinks and nothing else changed
RECURSIVE OnlyTargetsReplaced(_, _, _)
OnlyTargetsReplaced(line, from, out) ==
    LET m == Exec(line, from)
    IN  IF ~m.found THEN out = Drop(line, from)
        ELSE LET before == SubSeq(line, from + 1, m.at - 1)
                 rest == Drop(out, Len(before))
                 permalink == PermalinkOf(m.mdLink)
             IN  /\ StartsWith(out, before)
                 /\ \/ /\ StartsWith(rest, m.mdLink)
                       /\ OnlyTargetsReplaced(line, m.lastIndex, Drop(rest, Len(m.mdLink)))
                    \/ /\ permalink # <<>>
                       /\ StartsWith(rest, permalink)
                       /\ OnlyTargetsReplaced(line, m.lastIndex, Drop(rest, Len(permalink)))

\* C17: the returned text has as many lines as the text handed in, and each
\* line differs from its original only in link targets replaced by permalinks.
C17_OnlyTargetReplaced ==
    linkPc = "returned" =>
        LET ls == Lines(fileContent)
        IN  /\ Len(Lines(linkified)) = Len(ls)
            /\ \A i \in 1..Len(ls) : OnlyTargetsReplaced(ls[i], 0, outLines[i])

====
